---- MODULE Spec2Model ----
(***************************************************************************)
(* A model of the small-rngs generator engines: MSWS (msws.rs), the PCG    *)
(* family and MWP (pcg.rs), XSM32 and XSM64 (xsm.rs).                      *)
(*                                                                         *)
(* Machine words are wider than the integers of the model checker, so an   *)
(* unsigned integer of 16*n bits is a sequence of n limbs of 16 bits,      *)
(* least significant limb first: a u32 has 2 limbs, a u64 has 4 and a u128 *)
(* has 8.  All arithmetic is carried out limb by limb and wraps at the     *)
(* word's width, as the wrapping_* operations of the source do.            *)
(***************************************************************************)
EXTENDS Integers, Sequences, FiniteSets, TLC

VARIABLES
    kind,     \* the engine type constructed, "none" before construction
    given_seed, \* the seed bytes it was constructed from
    rng,      \* the engine's fields; Panicked if construction panicked
    last,     \* the last call: its name, argument, the engine before it,
              \* the word returned and the bytes written
    ncalls,   \* output calls made since construction
    nfills,   \* those of them that were fill_bytes or try_fill_bytes
    source,   \* from_rng: the words the source generator yields, in a cycle
    pos,      \* from_rng: the place in source of the next word it yields
    pc,       \* from_rng: "idle", "loop", "accepted" or "done"
    fr_stream, \* from_rng: the local variable stream
    script,   \* two instances: the calls made so far on the one further on
    twin      \* two instances: of each, whether it is built, its engine
              \* after construction, its engine now and what its calls gave

engineVars == << kind, given_seed, rng, last, ncalls, nfills >>
fromRngVars == << source, pos, pc, fr_stream >>
twinVars == << script, twin >>
vars == << kind, given_seed, rng, last, ncalls, nfills,
           source, pos, pc, fr_stream, script, twin >>

Base == 2^16

(***************************************************************************)
(* Bitwise operations on one limb.                                         *)
(***************************************************************************)
RECURSIVE BitXor(_, _)
BitXor(a, b) ==
    IF a = 0 THEN b
    ELSE IF b = 0 THEN a
    ELSE ((a + b) % 2) + 2 * BitXor(a \div 2, b \div 2)

RECURSIVE BitOr(_, _)
BitOr(a, b) ==
    IF a = 0 THEN b
    ELSE IF b = 0 THEN a
    ELSE (IF a % 2 = 1 \/ b % 2 = 1 THEN 1 ELSE 0) + 2 * BitOr(a \div 2, b \div 2)

RECURSIVE BitAnd(_, _)
BitAnd(a, b) ==
    IF a = 0 \/ b = 0 THEN 0
    ELSE (IF a % 2 = 1 /\ b % 2 = 1 THEN 1 ELSE 0) + 2 * BitAnd(a \div 2, b \div 2)

(***************************************************************************)
(* Words.                                                                  *)
(***************************************************************************)
\* The word of n limbs whose value is the small number v (v < 2^16).
Small(v, n) == [i \in 1..n |-> IF i = 1 THEN v ELSE 0]

\* a ^ b
xor(a, b) == [i \in 1..Len(a) |-> BitXor(a[i], b[i])]

\* a | b
or(a, b) == [i \in 1..Len(a) |-> BitOr(a[i], b[i])]

\* a & b
and(a, b) == [i \in 1..Len(a) |-> BitAnd(a[i], b[i])]

\* a < b, on words of the same width
RECURSIVE LtFrom(_, _, _)
LtFrom(a, b, i) ==
    IF i = 0 THEN FALSE
    ELSE IF a[i] # b[i] THEN a[i] < b[i]
    ELSE LtFrom(a, b, i - 1)

lt(a, b) == LtFrom(a, b, Len(a))

\* a.wrapping_add(b)
RECURSIVE AddFrom(_, _, _, _)
AddFrom(a, b, i, carry) ==
    IF i > Len(a) THEN << >>
    ELSE LET s == a[i] + b[i] + carry
         IN  << s % Base >> \o AddFrom(a, b, i + 1, s \div Base)

wrapping_add(a, b) == AddFrom(a, b, 1, 0)

\* The bytes of a word, least significant first (to_le_bytes).
to_le_bytes(a) ==
    [k \in 1..(2 * Len(a)) |->
        IF k % 2 = 1 THEN a[(k + 1) \div 2] % 256 ELSE a[k \div 2] \div 256]

\* The word whose little-endian bytes are b (from_le_bytes); Len(b) is even.
from_le_bytes(b) ==
    [i \in 1..(Len(b) \div 2) |-> b[2 * i - 1] + 256 * b[2 * i]]

\* a.wrapping_mul(b): the schoolbook product on bytes, column by column,
\* truncated to the width of a.
RECURSIVE ColumnSum(_, _, _, _)
ColumnSum(x, y, k, i) ==
    IF i > k THEN 0
    ELSE x[i] * y[k + 1 - i] + ColumnSum(x, y, k, i + 1)

RECURSIVE MulFrom(_, _, _, _)
MulFrom(x, y, k, carry) ==
    IF k > Len(x) THEN << >>
    ELSE LET s == ColumnSum(x, y, k, 1) + carry
         IN  << s % 256 >> \o MulFrom(x, y, k + 1, s \div 256)

wrapping_mul(a, b) ==
    from_le_bytes(MulFrom(to_le_bytes(a), to_le_bytes(b), 1, 0))

\* a >> k, 0 <= k < width
shr(a, k) ==
    LET n == Len(a)
        q == k \div 16
        r == k % 16
        L(j) == IF j <= n THEN a[j] ELSE 0
    IN  [i \in 1..n |->
            (L(i + q) \div 2^r) + (L(i + q + 1) % 2^r) * 2^(16 - r)]

\* a << k, 0 <= k < width
shl(a, k) ==
    LET n == Len(a)
        q == k \div 16
        r == k % 16
        L(j) == IF j >= 1 THEN a[j] ELSE 0
    IN  [i \in 1..n |->
            ((L(i - q) * 2^r) % Base) + (L(i - q - 1) \div 2^(16 - r))]

\* a.rotate_right(k): the amount is taken modulo the width
rotate_right(a, k) ==
    LET w == 16 * Len(a)
        s == k % w
    IN  IF s = 0 THEN a ELSE or(shr(a, s), shl(a, w - s))

\* a.rotate_left(k)
rotate_left(a, k) ==
    LET w == 16 * Len(a)
        s == k % w
    IN  IF s = 0 THEN a ELSE or(shl(a, s), shr(a, w - s))

\* a as u32 / a as u64: the low n limbs
truncate(a, n) == SubSeq(a, 1, n)

\* a as u64 / a as u128 of a narrower word: zero extension to n limbs
extend(a, n) == [i \in 1..n |-> IF i <= Len(a) THEN a[i] ELSE 0]

\* The value of a word known to be below 2^16 (a shift or rotate amount).
amount(a) == a[1]

(***************************************************************************)
(* rand_core: seed decoding.                                               *)
(***************************************************************************)
\* le::read_u64_into(&seed, &mut seed_u64): the seed's bytes, eight at a
\* time, each group decoded as a little-endian 64-bit word.
read_u64_into(seed) ==
    [i \in 1..(Len(seed) \div 8) |->
        from_le_bytes(SubSeq(seed, 8 * (i - 1) + 1, 8 * i))]

\* le::read_u32_into(&seed, &mut seed_u32)
read_u32_into(seed) ==
    [i \in 1..(Len(seed) \div 4) |->
        from_le_bytes(SubSeq(seed, 4 * (i - 1) + 1, 4 * i))]

(***************************************************************************)
(* MSWS, msws.rs.  State: x, w, s (u64).                                   *)
(***************************************************************************)
\* 0xffffffff_00000000
HighBits == << 0, 0, 65535, 65535 >>

\* What a construction that panics leaves: no engine.
Panicked == [panic |-> "bad seed: high bits are zero"]

\* MswsFromSeed with the mask mistyped as 0xffff0000_00000000.
MswsFromSeed_NarrowMask(seed) ==
    LET seed_u64 == read_u64_into(seed)
        stream   == or(seed_u64[1], Small(1, 4))
    IN  IF and(stream, << 0, 0, 0, 65535 >>) = Small(0, 4)
        THEN Panicked
        ELSE [x |-> seed_u64[2], w |-> Small(0, 4), s |-> stream]

MswsFromSeed(seed) ==
    LET seed_u64 == read_u64_into(seed)
        stream   == or(seed_u64[1], Small(1, 4))
    IN  IF and(stream, HighBits) = Small(0, 4)
        THEN Panicked
        ELSE [x |-> seed_u64[2], w |-> Small(0, 4), s |-> stream]

MswsNextU64(self) ==
    LET x1 == wrapping_mul(self.x, self.x)
        w1 == wrapping_add(self.w, self.s)
        x2 == wrapping_add(x1, w1)
    IN  [rng |-> [x |-> x2, w |-> w1, s |-> self.s],
         out |-> rotate_left(x2, 32)]

MswsNextU32(self) ==
    LET r == MswsNextU64(self)
    IN  [rng |-> r.rng, out |-> truncate(r.out, 2)]

(***************************************************************************)
(* PCG XSH 64/32 and PCG XSL 64/32 (LCG), pcg.rs.  State: state,           *)
(* increment (u64).                                                        *)
(***************************************************************************)
\* 6364136223846793005 = 0x5851f42d4c957f2d
PcgMultiplier == << 32557, 19605, 62509, 22609 >>

PcgXsh64FromSeed(seed) ==
    LET seed_u64 == read_u64_into(seed)
        ctx == [state |-> seed_u64[1],
                increment |-> or(seed_u64[2], Small(1, 4))]
    IN  [ctx EXCEPT !.state =
            wrapping_add(wrapping_mul(ctx.state, PcgMultiplier), ctx.increment)]

\* PcgXsh64NextU32 permuting the state it has just advanced to.
PcgXsh64NextU32_PostAdvance(self) ==
    LET state == wrapping_add(wrapping_mul(self.state, PcgMultiplier),
                              self.increment)
        xsh   == truncate(shr(xor(shr(state, 18), state), 27), 2)
    IN  [rng |-> [self EXCEPT !.state = state],
         out |-> rotate_right(xsh, amount(truncate(shr(state, 59), 2)))]

PcgXsh64NextU32(self) ==
    LET state   == self.state
        IN_BITS == 64
        OUT_BITS == 32
        OP_BITS == 5
        ROTATE  == IN_BITS - OP_BITS
        XSHIFT  == (OUT_BITS + OP_BITS) \div 2
        SPARE   == IN_BITS - OUT_BITS - OP_BITS
        xsh     == truncate(shr(xor(shr(state, XSHIFT), state), SPARE), 2)
    IN  [rng |-> [self EXCEPT !.state =
                    wrapping_add(wrapping_mul(state, PcgMultiplier),
                                 self.increment)],
         out |-> rotate_right(xsh, amount(truncate(shr(state, ROTATE), 2)))]

\* PcgXsl64FromSeed without forcing the increment odd.
PcgXsl64FromSeed_NotForced(seed) ==
    LET seed_u64 == read_u64_into(seed)
        ctx == [state |-> seed_u64[1], increment |-> seed_u64[2]]
    IN  [ctx EXCEPT !.state =
            wrapping_add(wrapping_mul(ctx.state, PcgMultiplier), ctx.increment)]

PcgXsl64FromSeed(seed) ==
    LET seed_u64 == read_u64_into(seed)
        ctx == [state |-> seed_u64[1],
                increment |-> or(seed_u64[2], Small(1, 4))]
    IN  [ctx EXCEPT !.state =
            wrapping_add(wrapping_mul(ctx.state, PcgMultiplier), ctx.increment)]

PcgXsl64NextU32(self) ==
    LET state   == self.state
        IN_BITS == 64
        OUT_BITS == 32
        SPARE_BITS == IN_BITS - OUT_BITS
        OP_BITS == 5
        XSHIFT  == (SPARE_BITS + OUT_BITS) \div 2
        ROTATE  == IN_BITS - OP_BITS
        xsl     == xor(truncate(shr(state, XSHIFT), 2), truncate(state, 2))
    IN  [rng |-> [self EXCEPT !.state =
                    wrapping_add(wrapping_mul(state, PcgMultiplier),
                                 self.increment)],
         out |-> rotate_right(xsl, amount(truncate(shr(state, ROTATE), 2)))]

(***************************************************************************)
(* PCG XSL 128/64 (MCG), pcg.rs.  State: state (u128).                     *)
(***************************************************************************)
\* 2549297995355413924u128 << 64 | 4865540595714422341
MULTIPLIER ==
    or(shl(extend(<< 23972, 8134, 60677, 9056 >>, 8), 64),
       extend(<< 63045, 40908, 57188, 17285 >>, 8))

\* PcgXsl128FromSeed forcing the state odd, as the comment in from_seed
\* suggests.
PcgXsl128FromSeed_ForcedOdd(seed) ==
    LET seed_u64 == read_u64_into(seed)
        ctx == [state |-> or(or(shl(extend(seed_u64[1], 8), 64),
                                extend(seed_u64[2], 8)),
                             Small(1, 8))]
    IN  [ctx EXCEPT !.state = wrapping_mul(ctx.state, MULTIPLIER)]

PcgXsl128FromSeed(seed) ==
    LET seed_u64 == read_u64_into(seed)
        ctx == [state |-> or(shl(extend(seed_u64[1], 8), 64),
                             extend(seed_u64[2], 8))]
    IN  [ctx EXCEPT !.state = wrapping_mul(ctx.state, MULTIPLIER)]

PcgXsl128NextU64(self) ==
    LET state   == self.state
        IN_BITS == 128
        OUT_BITS == 64
        SPARE_BITS == IN_BITS - OUT_BITS
        OP_BITS == 6
        XSHIFT  == (SPARE_BITS + OUT_BITS) \div 2
        ROTATE  == IN_BITS - OP_BITS
        xsl     == xor(truncate(shr(state, XSHIFT), 4), truncate(state, 4))
    IN  [rng |-> [state |-> wrapping_mul(state, MULTIPLIER)],
         out |-> rotate_right(xsl, amount(truncate(shr(state, ROTATE), 2)))]

PcgXsl128NextU32(self) ==
    LET r == PcgXsl128NextU64(self)
    IN  [rng |-> r.rng, out |-> truncate(r.out, 2)]

(***************************************************************************)
(* MWP, pcg.rs.  State: m, w (u64).                                        *)
(***************************************************************************)
\* 1442695040888963407 = 0x14057b7ef767814f
MwpWeyl == << 33103, 63335, 31614, 5125 >>

MwpFromSeed(seed) ==
    LET seed_u64 == read_u64_into(seed)
    IN  [m |-> or(seed_u64[1], Small(1, 4)), w |-> seed_u64[2]]

\* MwpNextU32 leaving the Weyl sequence where it is.
MwpNextU32_NoWeyl(self) ==
    LET m1    == wrapping_mul(self.m, PcgMultiplier)
        state == xor(m1, self.w)
        xsh   == truncate(shr(xor(shr(state, 18), state), 27), 2)
    IN  [rng |-> [m |-> m1, w |-> self.w],
         out |-> rotate_right(xsh, amount(truncate(shr(state, 59), 2)))]

MwpNextU32(self) ==
    LET m1      == wrapping_mul(self.m, PcgMultiplier)
        w1      == wrapping_add(self.w, MwpWeyl)
        state   == xor(m1, w1)
        IN_BITS == 64
        OUT_BITS == 32
        OP_BITS == 5
        ROTATE  == IN_BITS - OP_BITS
        XSHIFT  == (OUT_BITS + OP_BITS) \div 2
        SPARE   == IN_BITS - OUT_BITS - OP_BITS
        xsh     == truncate(shr(xor(shr(state, XSHIFT), state), SPARE), 2)
    IN  [rng |-> [m |-> m1, w |-> w1],
         out |-> rotate_right(xsh, amount(truncate(shr(state, ROTATE), 2)))]

\* MwpNextU64 with the fixed xorshift one bit short.
MwpNextU64_Shift42(self) ==
    LET m1     == wrapping_mul(self.m, PcgMultiplier)
        w1     == wrapping_add(self.w, MwpWeyl)
        state0 == xor(m1, w1)
        rshift == BitAnd(amount(shr(state0, 59)), 63)
        state1 == xor(state0, shr(state0, 5 + rshift))
        state2 == wrapping_mul(state1, PcgMultiplier)
    IN  [rng |-> [m |-> m1, w |-> w1],
         out |-> xor(state2, shr(state2, 42))]

MwpNextU64(self) ==
    LET m1      == wrapping_mul(self.m, PcgMultiplier)
        w1      == wrapping_add(self.w, MwpWeyl)
        state0  == xor(m1, w1)
        BITS    == 64
        OP_BITS == 5
        MASK    == BITS - 1
        rshift  == BitAnd(amount(shr(state0, BITS - OP_BITS)), MASK)
        state1  == xor(state0, shr(state0, OP_BITS + rshift))
        state2  == wrapping_mul(state1, PcgMultiplier)
    IN  [rng |-> [m |-> m1, w |-> w1],
         out |-> xor(state2, shr(state2, (2 * BITS + 2) \div 3))]

(***************************************************************************)
(* XSM32 and XSM64, xsm.rs.  State: lcg_low, lcg_high, lcg_adder, history. *)
(***************************************************************************)
\* 0x6595a395
Xsm32K == << 41877, 26005 >>

\* 0xa3ec647659359acd
Xsm64K == << 39629, 22837, 25718, 41964 >>

\* (cond) as u32 / as u64
as_word(cond, n) == Small(IF cond THEN 1 ELSE 0, n)

Xsm32NextU32(self) ==
    LET rv0  == wrapping_mul(self.history, Xsm32K)
        tmp0 == wrapping_add(self.lcg_high,
                    rotate_left(xor(self.lcg_high, self.lcg_low), 11))
        tmp  == wrapping_mul(tmp0, Xsm32K)
        old0 == self.lcg_low
        low  == wrapping_add(self.lcg_low, self.lcg_adder)
        old1 == wrapping_add(old0, as_word(lt(low, self.lcg_adder), 2))
        high == wrapping_add(self.lcg_high, old1)
        rv1  == xor(rv0, shr(rv0, 16))
        hist == xor(tmp, shr(tmp, 16))
    IN  [rng |-> [lcg_low |-> low, lcg_high |-> high,
                  lcg_adder |-> self.lcg_adder, history |-> hist],
         out |-> wrapping_add(rv1, hist)]

Xsm32FromSeed(seed) ==
    LET seed_u32 == read_u32_into(seed)
        state == [lcg_low |-> seed_u32[1], lcg_high |-> seed_u32[2],
                  lcg_adder |-> or(seed_u32[3], Small(1, 2)),
                  history |-> Small(0, 2)]
    IN  Xsm32NextU32(state).rng

Xsm64NextU64(self) ==
    LET hist0 == wrapping_mul(self.history, Xsm64K)
        tmp0  == wrapping_add(self.lcg_high,
                    rotate_left(xor(self.lcg_high, self.lcg_low), 19))
        tmp   == wrapping_mul(tmp0, Xsm64K)
        old0  == self.lcg_low
        high  == wrapping_add(self.lcg_high,
                    wrapping_add(old0,
                        as_word(lt(self.lcg_low, self.lcg_adder), 4)))
        old1  == xor(hist0, shr(hist0, 32))
    IN  [rng |-> [lcg_low |-> self.lcg_low, lcg_high |-> high,
                  lcg_adder |-> self.lcg_adder,
                  history |-> xor(tmp, shr(tmp, 32))],
         out |-> wrapping_add(tmp, old1)]

Xsm64FromSeed(seed) ==
    LET seed_u64 == read_u64_into(seed)
        state == [lcg_low |-> seed_u64[1], lcg_high |-> seed_u64[2],
                  lcg_adder |-> or(seed_u64[3], Small(1, 4)),
                  history |-> Small(0, 4)]
    IN  Xsm64NextU64(state).rng

Xsm64NextU32(self) ==
    LET r == Xsm64NextU64(self)
    IN  [rng |-> r.rng, out |-> truncate(r.out, 2)]

(***************************************************************************)
(* rand_core: what an engine derives from its own outputs.  NextU32 and    *)
(* NextU64 are the engine's next_u32 and next_u64; each gives the engine   *)
(* it leaves (rng) and the word it returns (out).                          *)
(***************************************************************************)
\* impls::next_u64_via_u32(rng): two 32-bit outputs, the first in the low
\* half.
next_u64_via_u32(NextU32(_), self) ==
    LET first  == NextU32(self)
        second == NextU32(first.rng)
        x      == extend(first.out, 4)
        y      == extend(second.out, 4)
    IN  [rng |-> second.rng, out |-> or(shl(y, 32), x)]

\* impls::fill_bytes_via_next(rng, dest), dest a buffer of n bytes: each
\* whole chunk of 8 bytes takes one 64-bit output; of the bytes left over,
\* 5 to 7 take the leading bytes of one more 64-bit output and 1 to 4 the
\* leading bytes of one 32-bit output.  buf is what dest holds afterwards.
fill_bytes_via_next(NextU32(_), NextU64(_), self, n) ==
    LET chunks == n \div 8
        tail   == n % 8
        filled[i \in 0..chunks] ==
            IF i = 0 THEN [rng |-> self, buf |-> << >>]
            ELSE LET word == NextU64(filled[i - 1].rng)
                 IN  [rng |-> word.rng,
                      buf |-> filled[i - 1].buf \o to_le_bytes(word.out)]
        whole  == filled[chunks]
    IN  IF tail > 4
        THEN LET word == NextU64(whole.rng)
             IN  [rng |-> word.rng,
                  buf |-> whole.buf \o SubSeq(to_le_bytes(word.out), 1, tail)]
        ELSE IF tail > 0
        THEN LET word == NextU32(whole.rng)
             IN  [rng |-> word.rng,
                  buf |-> whole.buf \o SubSeq(to_le_bytes(word.out), 1, tail)]
        ELSE whole

\* PcgXsh64NextU64 packing the first 32-bit output into the high half.
PcgXsh64NextU64_HighFirst(self) ==
    LET first  == PcgXsh64NextU32(self)
        second == PcgXsh64NextU32(first.rng)
    IN  [rng |-> second.rng,
         out |-> or(shl(extend(first.out, 4), 32), extend(second.out, 4))]

PcgXsh64NextU64(self) == next_u64_via_u32(PcgXsh64NextU32, self)

PcgXsl64NextU64(self) == next_u64_via_u32(PcgXsl64NextU32, self)

Xsm32NextU64(self) == next_u64_via_u32(Xsm32NextU32, self)

\* MswsFillBytes generating one word more than the buffer needs.
MswsFillBytes_ExtraWord(self, n) ==
    LET r == fill_bytes_via_next(MswsNextU32, MswsNextU64, self, n)
    IN  [rng |-> MswsNextU64(r.rng).rng, buf |-> r.buf]

MswsFillBytes(self, n) ==
    fill_bytes_via_next(MswsNextU32, MswsNextU64, self, n)

PcgXsh64FillBytes(self, n) ==
    fill_bytes_via_next(PcgXsh64NextU32, PcgXsh64NextU64, self, n)

PcgXsl64FillBytes(self, n) ==
    fill_bytes_via_next(PcgXsl64NextU32, PcgXsl64NextU64, self, n)

PcgXsl128FillBytes(self, n) ==
    fill_bytes_via_next(PcgXsl128NextU32, PcgXsl128NextU64, self, n)

MwpFillBytes(self, n) ==
    fill_bytes_via_next(MwpNextU32, MwpNextU64, self, n)

Xsm32FillBytes(self, n) ==
    fill_bytes_via_next(Xsm32NextU32, Xsm32NextU64, self, n)

Xsm64FillBytes(self, n) ==
    fill_bytes_via_next(Xsm64NextU32, Xsm64NextU64, self, n)

(***************************************************************************)
(* The engines behind one interface (Box<dyn RngCore>, SeedableRng).       *)
(***************************************************************************)
Kinds == {"msws", "pcg_xsh_64_lcg", "pcg_xsl_64_lcg", "pcg_xsl_128_mcg",
          "mwp", "xsm32", "xsm64"}

from_seed(k, s) ==
    CASE k = "msws"            -> MswsFromSeed(s)
      [] k = "pcg_xsh_64_lcg"  -> PcgXsh64FromSeed(s)
      [] k = "pcg_xsl_64_lcg"  -> PcgXsl64FromSeed(s)
      [] k = "pcg_xsl_128_mcg" -> PcgXsl128FromSeed(s)
      [] k = "mwp"             -> MwpFromSeed(s)
      [] k = "xsm32"           -> Xsm32FromSeed(s)
      [] k = "xsm64"           -> Xsm64FromSeed(s)

next_u32(k, self) ==
    CASE k = "msws"            -> MswsNextU32(self)
      [] k = "pcg_xsh_64_lcg"  -> PcgXsh64NextU32(self)
      [] k = "pcg_xsl_64_lcg"  -> PcgXsl64NextU32(self)
      [] k = "pcg_xsl_128_mcg" -> PcgXsl128NextU32(self)
      [] k = "mwp"             -> MwpNextU32(self)
      [] k = "xsm32"           -> Xsm32NextU32(self)
      [] k = "xsm64"           -> Xsm64NextU32(self)

next_u64(k, self) ==
    CASE k = "msws"            -> MswsNextU64(self)
      [] k = "pcg_xsh_64_lcg"  -> PcgXsh64NextU64(self)
      [] k = "pcg_xsl_64_lcg"  -> PcgXsl64NextU64(self)
      [] k = "pcg_xsl_128_mcg" -> PcgXsl128NextU64(self)
      [] k = "mwp"             -> MwpNextU64(self)
      [] k = "xsm32"           -> Xsm32NextU64(self)
      [] k = "xsm64"           -> Xsm64NextU64(self)

fill_bytes(k, self, n) ==
    CASE k = "msws"            -> MswsFillBytes(self, n)
      [] k = "pcg_xsh_64_lcg"  -> PcgXsh64FillBytes(self, n)
      [] k = "pcg_xsl_64_lcg"  -> PcgXsl64FillBytes(self, n)
      [] k = "pcg_xsl_128_mcg" -> PcgXsl128FillBytes(self, n)
      [] k = "mwp"             -> MwpFillBytes(self, n)
      [] k = "xsm32"           -> Xsm32FillBytes(self, n)
      [] k = "xsm64"           -> Xsm64FillBytes(self, n)

\* try_fill_bytes: Ok(self.fill_bytes(dest)), the same in every engine.
try_fill_bytes(k, self, n) ==
    LET r == fill_bytes(k, self, n)
    IN  [rng |-> r.rng, buf |-> r.buf, result |-> "Ok"]

(***************************************************************************)
(* Inputs.  Seed words are given by their little-endian bytes.             *)
(***************************************************************************)
MaxCalls == 2

One64 == << 1, 0, 0, 0, 0, 0, 0, 0 >>

\* 0, 1, 0xfffffffe, 2^32, 2^64-1 and a word without structure
SeedWords64 ==
    { << 0, 0, 0, 0, 0, 0, 0, 0 >>,
      << 1, 0, 0, 0, 0, 0, 0, 0 >>,
      << 254, 255, 255, 255, 0, 0, 0, 0 >>,
      << 0, 0, 0, 0, 1, 0, 0, 0 >>,
      << 255, 255, 255, 255, 255, 255, 255, 255 >>,
      << 200, 220, 254, 46, 108, 184, 18, 122 >> }

\* 0, 1, 2^64-2 and a word without structure
SeedWords64Few ==
    { << 0, 0, 0, 0, 0, 0, 0, 0 >>,
      << 1, 0, 0, 0, 0, 0, 0, 0 >>,
      << 254, 255, 255, 255, 255, 255, 255, 255 >>,
      << 200, 220, 254, 46, 108, 184, 18, 122 >> }

\* 0, 2^32-2 and a word without structure
SeedWords32 ==
    { << 0, 0, 0, 0 >>,
      << 254, 255, 255, 255 >>,
      << 200, 220, 254, 46 >> }

Seeds(k) ==
    CASE k = "xsm32" ->
            { a \o b \o c : a \in SeedWords32, b \in SeedWords32,
                            c \in SeedWords32 }
      [] k = "xsm64" ->
            { a \o b \o c : a \in SeedWords64Few \ {One64},
                            b \in SeedWords64Few \ {One64},
                            c \in SeedWords64Few \ {One64} }
      [] OTHER ->
            { a \o b : a \in SeedWords64, b \in SeedWords64Few }

\* The lengths of the buffers handed to fill_bytes.
BufLens == {0, 3, 5, 8, 16}

\* The lengths of the buffers handed to try_fill_bytes.
TryBufLens == {11}

(***************************************************************************)
(* One engine instance and the calls made on it.                           *)
(***************************************************************************)
NoEngine == [none |-> TRUE]

NoCall == [op |-> "none", n |-> 0, pre |-> NoEngine, out |-> << >>,
           buf |-> << >>, result |-> "none"]

Instances == {"A", "B"}

Unbuilt == [built |-> FALSE, init |-> NoEngine, rng |-> NoEngine, log |-> << >>]

\* No from_rng call and no second instance.
FromRngIdle ==
    /\ source = << >>
    /\ pos = 1
    /\ pc = "idle"
    /\ fr_stream = << >>

TwinIdle ==
    /\ script = << >>
    /\ twin = [i \in Instances |-> Unbuilt]

Init ==
    /\ kind = "none"
    /\ given_seed = << >>
    /\ rng = NoEngine
    /\ last = NoCall
    /\ ncalls = 0
    /\ nfills = 0
    /\ FromRngIdle
    /\ TwinIdle

Alive == kind # "none" /\ rng # Panicked /\ ncalls < MaxCalls

\* SeedableRng::from_seed
Construct ==
    /\ kind = "none"
    /\ \E k \in Kinds : \E s \in Seeds(k) :
        /\ kind' = k
        /\ given_seed' = s
        /\ rng' = from_seed(k, s)
        /\ last' = [NoCall EXCEPT !.op = "from_seed"]
    /\ UNCHANGED << ncalls, nfills, fromRngVars, twinVars >>

\* RngCore::next_u32
CallNextU32 ==
    /\ Alive
    /\ LET r == next_u32(kind, rng)
       IN  /\ rng' = r.rng
           /\ last' = [NoCall EXCEPT !.op = "next_u32", !.pre = rng,
                                     !.out = r.out]
    /\ ncalls' = ncalls + 1
    /\ UNCHANGED << kind, given_seed, nfills, fromRngVars, twinVars >>

\* RngCore::next_u64
CallNextU64 ==
    /\ Alive
    /\ LET r == next_u64(kind, rng)
       IN  /\ rng' = r.rng
           /\ last' = [NoCall EXCEPT !.op = "next_u64", !.pre = rng,
                                     !.out = r.out]
    /\ ncalls' = ncalls + 1
    /\ UNCHANGED << kind, given_seed, nfills, fromRngVars, twinVars >>

\* RngCore::fill_bytes
CallFillBytes ==
    /\ Alive
    /\ \E n \in BufLens :
        LET r == fill_bytes(kind, rng, n)
        IN  /\ rng' = r.rng
            /\ last' = [NoCall EXCEPT !.op = "fill_bytes", !.n = n,
                                      !.pre = rng, !.buf = r.buf]
    /\ ncalls' = ncalls + 1
    /\ nfills' = nfills + 1
    /\ UNCHANGED << kind, given_seed, fromRngVars, twinVars >>

\* RngCore::try_fill_bytes
CallTryFillBytes ==
    /\ Alive
    /\ \E n \in TryBufLens :
        LET r == try_fill_bytes(kind, rng, n)
        IN  /\ rng' = r.rng
            /\ last' = [NoCall EXCEPT !.op = "try_fill_bytes", !.n = n,
                                      !.pre = rng, !.buf = r.buf,
                                      !.result = r.result]
    /\ ncalls' = ncalls + 1
    /\ nfills' = nfills + 1
    /\ UNCHANGED << kind, given_seed, fromRngVars, twinVars >>

Next ==
    \/ Construct
    \/ CallNextU32
    \/ CallNextU64
    \/ CallFillBytes
    \/ CallTryFillBytes

Spec == Init /\ [][Next]_vars

(***************************************************************************)
(* Properties.                                                             *)
(***************************************************************************)
Constructed == kind # "none" /\ rng # Panicked

\* The byte b with its low bit forced to 1.
ForcedOdd(b) == IF b % 2 = 1 THEN b ELSE b + 1

\* The bytes of the i-th 64-bit seed word, with or without its low bit forced.
SeedWord(i) == SubSeq(given_seed, 8 * (i - 1) + 1, 8 * i)
SeedWordOdd(i) == [SeedWord(i) EXCEPT ![1] = ForcedOdd(@)]

\* C1: MSWS construction from a seed panics, producing no engine, exactly
\* when the first seed word with its low bit forced has no bit set among its
\* high 32 bits (bytes 5 to 8 of the seed are all zero); every other seed
\* gives s = first word | 1, w = 0 and x = second word.
C1_SeedValidity ==
    (kind = "msws" /\ ncalls = 0) =>
        /\ (rng = Panicked) <=> (\A i \in 5..8 : SeedWordOdd(1)[i] = 0)
        /\ rng # Panicked =>
            /\ to_le_bytes(rng.s) = SeedWordOdd(1)
            /\ to_le_bytes(rng.x) = SeedWord(2)
            /\ rng.w = << 0, 0, 0, 0 >>

\* A seed whose first word is 0xfffffffe is refused: forcing the low bit
\* gives 0xffffffff, whose high half is zero.
C1_Witness ==
    /\ kind = "msws"
    /\ SeedWord(1) = << 254, 255, 255, 255, 0, 0, 0, 0 >>
    /\ rng = Panicked

\* The two halves of a 64-bit word packed from two 32-bit words.
Packed(lo, hi) == << lo[1], lo[2], hi[1], hi[2] >>

\* C2: from any reachable state, next_u64 of PCG XSH 64/32 and PCG XSL 64/32
\* returns two successive next_u32 results, the first in the low half, and
\* leaves the state the second of them leaves; next_u32 of PCG XSL 128/64
\* and MSWS returns the low half of what next_u64 returns from that state
\* and leaves the state next_u64 leaves.
C2_WidthConsistency ==
    /\ (last.op = "next_u64" /\ kind \in {"pcg_xsh_64_lcg", "pcg_xsl_64_lcg"}) =>
        LET first  == next_u32(kind, last.pre)
            second == next_u32(kind, first.rng)
        IN  /\ last.out = Packed(first.out, second.out)
            /\ rng = second.rng
    /\ (last.op = "next_u32" /\ kind \in {"pcg_xsl_128_mcg", "msws"}) =>
        LET wide == next_u64(kind, last.pre)
        IN  /\ last.out = << wide.out[1], wide.out[2] >>
            /\ rng = wide.rng

\* A next_u64 call on PCG XSH 64/32 made after an earlier call, returning a
\* word whose halves differ.
C2_Witness ==
    /\ kind = "pcg_xsh_64_lcg"
    /\ last.op = "next_u64"
    /\ ncalls = 2
    /\ << last.out[1], last.out[2] >> # << last.out[3], last.out[4] >>

\* C3: the increment of PCG XSH 64/32 and PCG XSL 64/32 and the m of MWP
\* are odd after construction and after every output call, whatever the
\* parity of the seed's words; the increment stays the second seed word
\* with its low bit forced.
C3_OddIncrement ==
    Constructed =>
        /\ kind \in {"pcg_xsh_64_lcg", "pcg_xsl_64_lcg"} =>
            /\ rng.increment[1] % 2 = 1
            /\ to_le_bytes(rng.increment) = SeedWordOdd(2)
        /\ kind = "mwp" => rng.m[1] % 2 = 1

\* PCG XSL 64/32 seeded with an even increment word, after two calls.
C3_Witness ==
    /\ kind = "pcg_xsl_64_lcg"
    /\ SeedWord(2)[1] % 2 = 0
    /\ ncalls = 2
    /\ last.op = "fill_bytes"
    /\ rng.increment[1] % 2 = 1

\* The seed of the golden vector: state word 0, increment word 1.
GoldenSeed == << 0, 0, 0, 0, 0, 0, 0, 0, 1, 0, 0, 0, 0, 0, 0, 0 >>

\* C6: PCG XSH 64/32 constructed from state word 0 and increment word 1
\* holds state 1 after construction, and its first next_u32 returns 0.
C6_GoldenVector ==
    (kind = "pcg_xsh_64_lcg" /\ given_seed = GoldenSeed) =>
        /\ ncalls = 0 => rng.state = << 1, 0, 0, 0 >>
        /\ (ncalls = 1 /\ last.op = "next_u32") => last.out = << 0, 0 >>

\* The first next_u32 call on the golden seed has returned.
C6_Witness ==
    /\ kind = "pcg_xsh_64_lcg"
    /\ given_seed = GoldenSeed
    /\ ncalls = 1
    /\ last.op = "next_u32"
    /\ last.pre.state = << 1, 0, 0, 0 >>
    /\ last.out = << 0, 0 >>

\* The engines whose native output is a 64-bit word.
Word64Kinds == {"msws", "pcg_xsl_128_mcg", "mwp", "xsm64"}

\* Byte k (from 1, least significant first) of a word.
LeByte(v, k) ==
    IF k % 2 = 1 THEN v[(k + 1) \div 2] % 256 ELSE v[k \div 2] \div 256

\* The first n bytes of the little-endian encoding of a word.
LeBytes(v, n) == [k \in 1..n |-> LeByte(v, k)]

\* What fill_bytes on a buffer of n bytes must do to an engine pre of kind k:
\* post is the engine afterwards and buf the buffer afterwards.
SerializationLaw(k, pre, n, post, buf) ==
    /\ Len(buf) = n
    /\ n = 8 =>
        LET one == next_u64(k, pre)
        IN  buf = LeBytes(one.out, 8) /\ post = one.rng
    /\ n = 16 =>
        LET one == next_u64(k, pre)
            two == next_u64(k, one.rng)
        IN  buf = LeBytes(one.out, 8) \o LeBytes(two.out, 8) /\ post = two.rng
    /\ (0 < n /\ n < 8) =>
        \E word \in {next_u64(k, pre), next_u32(k, pre)} :
            /\ n <= 2 * Len(word.out)
            /\ buf = LeBytes(word.out, n)
            /\ post = word.rng

\* C5: fill_bytes on an engine of 64-bit words writes, into a buffer of 8
\* bytes, the little-endian encoding of one next_u64 result; into one of 16
\* bytes, those of two successive next_u64 results in call order; into one
\* shorter than a word, the leading bytes of one generated word, the rest of
\* which is dropped; and the engine's type and seed stay as they were.
C5_SerializationLaw ==
    [][ (last'.op = "fill_bytes" /\ kind \in Word64Kinds) =>
            /\ SerializationLaw(kind, rng, last'.n, rng', last'.buf)
            /\ last'.pre = rng
            /\ kind' = kind
            /\ given_seed' = given_seed ]_vars

\* MWP has filled a buffer of three bytes as its second call.
C5_Witness ==
    /\ kind = "mwp"
    /\ last.op = "fill_bytes"
    /\ last.n = 3
    /\ ncalls = 2
    /\ Len(last.buf) = 3
    /\ rng # last.pre

\* The 64-bit seed words of the engine under construction, decoded.
SeedWordValue(i) == from_le_bytes(SeedWord(i))

\* C7: every XSM64 step, the warm-up step of seeding included, adds
\* lcg_adder to lcg_low with wraparound and carries into lcg_high, the carry
\* being detected by comparing the new lcg_low with lcg_adder.
C7_Xsm64LcgAdvance ==
    (kind = "xsm64" /\ Constructed) =>
        /\ ncalls = 0 =>
            rng.lcg_low = wrapping_add(SeedWordValue(1), rng.lcg_adder)
        /\ last.op = "next_u64" =>
            LET low   == wrapping_add(last.pre.lcg_low, last.pre.lcg_adder)
                carry == IF lt(low, last.pre.lcg_adder) THEN 1 ELSE 0
            IN  /\ rng.lcg_low = low
                /\ rng.lcg_high =
                      wrapping_add(last.pre.lcg_high,
                          wrapping_add(last.pre.lcg_low, Small(carry, 4)))

\* The same statement about XSM32, which the code does satisfy.
Xsm32LcgAdvance ==
    (kind = "xsm32" /\ Constructed /\ last.op = "next_u32") =>
        LET low   == wrapping_add(last.pre.lcg_low, last.pre.lcg_adder)
            carry == IF lt(low, last.pre.lcg_adder) THEN 1 ELSE 0
        IN  /\ rng.lcg_low = low
            /\ rng.lcg_high =
                  wrapping_add(last.pre.lcg_high,
                      wrapping_add(last.pre.lcg_low, Small(carry, 2)))

\* The RXS-M-XS permutation of a 64-bit word with a fixed xorshift of k bits:
\* the shift is the top five bits of the word.
RxsMXs(state, k) ==
    LET shift == state[4] \div 2^11
        mixed == xor(state, shr(state, 5 + shift))
        multiplied == wrapping_mul(mixed, PcgMultiplier)
    IN  xor(multiplied, shr(multiplied, k))

\* C8 as claimed: MWP's next_u64 returns the RXS-M-XS permutation of m XOR w,
\* taken after advancing both, with a final xorshift of 42 bits.
C8_Shift42 ==
    (kind = "mwp" /\ last.op = "next_u64") =>
        last.out = RxsMXs(xor(rng.m, rng.w), 42)

\* C8 as amended: MWP's next_u64 returns the RXS-M-XS permutation of m XOR w,
\* taken after advancing both, with a final xorshift of 43 bits,
\* (2 * 64 + 2) / 3.
C8_Shift43 ==
    (kind = "mwp" /\ last.op = "next_u64") =>
        last.out = RxsMXs(xor(rng.m, rng.w), 43)

\* MWP has returned a 64-bit word on which the two shifts disagree.
C8_Witness ==
    /\ kind = "mwp"
    /\ last.op = "next_u64"
    /\ last.out = RxsMXs(xor(rng.m, rng.w), 43)
    /\ last.out # RxsMXs(xor(rng.m, rng.w), 42)

\* a * b^n and a + n * b, wrapping.
RECURSIVE TimesPower(_, _, _)
TimesPower(a, b, n) ==
    IF n = 0 THEN a ELSE TimesPower(wrapping_mul(a, b), b, n - 1)

RECURSIVE PlusMultiple(_, _, _)
PlusMultiple(a, b, n) ==
    IF n = 0 THEN a ELSE PlusMultiple(wrapping_add(a, b), b, n - 1)

\* C10: in MWP, next_u32 and next_u64 make the same transition,
\* m *= 6364136223846793005 and w += 1442695040888963407; after n output
\* calls of either width the state is (m0 * M^n, w0 + n * C); and one
\* next_u64 call does not leave the state two next_u32 calls leave.
C10_MwpSharedAdvance ==
    (kind = "mwp" /\ Constructed) =>
        /\ last.op \in {"next_u32", "next_u64"} =>
            rng = [m |-> wrapping_mul(last.pre.m, PcgMultiplier),
                   w |-> wrapping_add(last.pre.w, MwpWeyl)]
        /\ nfills = 0 =>
            /\ rng.m = TimesPower(from_le_bytes(SeedWordOdd(1)),
                                  PcgMultiplier, ncalls)
            /\ rng.w = PlusMultiple(SeedWordValue(2), MwpWeyl, ncalls)
        /\ next_u32(kind, rng).rng = next_u64(kind, rng).rng
        /\ next_u64(kind, rng).rng # next_u32(kind, next_u32(kind, rng).rng).rng

\* MWP after one call of each width.
C10_Witness ==
    /\ kind = "mwp"
    /\ ncalls = 2
    /\ nfills = 0
    /\ last.op = "next_u32"
    /\ rng.m = TimesPower(from_le_bytes(SeedWordOdd(1)), PcgMultiplier, 2)

\* The seed of all-zero bytes.
ZeroSeed == [i \in 1..Len(given_seed) |-> 0]

\* C11: PCG XSL 128/64 never forces its state odd or non-zero.  Its
\* construction never fails; in every reachable state the low bit of state
\* is the low bit of the second seed word; built from the all-zero seed its
\* state is 0, a step from state 0 leaves state 0, and every next_u32 and
\* next_u64 output is 0.
C11_Xsl128StateNotForced ==
    kind = "pcg_xsl_128_mcg" =>
        /\ rng # Panicked
        /\ rng.state[1] % 2 = SeedWordValue(2)[1] % 2
        /\ rng.state = Small(0, 8) =>
            /\ PcgXsl128NextU64(rng) = [rng |-> rng, out |-> Small(0, 4)]
            /\ PcgXsl128NextU32(rng) = [rng |-> rng, out |-> Small(0, 2)]
        /\ given_seed = ZeroSeed =>
            /\ rng.state = Small(0, 8)
            /\ last.op = "next_u64" => last.out = Small(0, 4)
            /\ last.op = "next_u32" => last.out = Small(0, 2)

\* PCG XSL 128/64 built from the all-zero seed, after one output of each
\* width.
C11_Witness ==
    /\ kind = "pcg_xsl_128_mcg"
    /\ given_seed = ZeroSeed
    /\ Len(given_seed) = 16
    /\ ncalls = 2
    /\ nfills = 0
    /\ last.op = "next_u64"
    /\ last.pre = [state |-> Small(0, 8)]
    /\ last.out = Small(0, 4)
    /\ rng.state = Small(0, 8)

\* PCG XSL 128/64 built from a seed whose second word is odd, after two
\* outputs: the state is still odd.
C11_OddWitness ==
    /\ kind = "pcg_xsl_128_mcg"
    /\ SeedWord(2) = One64
    /\ ncalls = 2
    /\ rng.state[1] % 2 = 1

(***************************************************************************)
(* MswsRng::from_rng, msws.rs: construction from another generator.  The   *)
(* source generator is the cycle of 64-bit words it yields.                *)
(***************************************************************************)
SourcePeriod == 3

\* 0, 0xffffffff, 2^32, 2^32 + 2^16 + 1 and a word without structure
SourceWords ==
    { << 0, 0, 0, 0 >>,
      << 65535, 65535, 0, 0 >>,
      << 0, 0, 1, 0 >>,
      << 1, 1, 1, 0 >>,
      << 56520, 12030, 47212, 31250 >> }

Sources == [1..SourcePeriod -> SourceWords]

\* other.next_u64(): the word at pos; the source moves on by one word.
NextPos == IF pos = Len(source) THEN 1 ELSE pos + 1

FromRngInit ==
    /\ kind = "none"
    /\ given_seed = << >>
    /\ rng = NoEngine
    /\ last = NoCall
    /\ ncalls = 0
    /\ nfills = 0
    /\ source \in Sources
    /\ pos = 1
    /\ pc = "loop"
    /\ fr_stream = << >>
    /\ TwinIdle

\* One turn of the loop without the test: the first word drawn is taken.
FromRngLoop_Unchecked ==
    /\ pc = "loop"
    /\ fr_stream' = or(source[pos], Small(1, 4))
    /\ pos' = NextPos
    /\ pc' = "accepted"
    /\ UNCHANGED << engineVars, source, twinVars >>

\* One turn of the loop: stream = other.next_u64() | 1, and break if its
\* high 32 bits are not all zero.
FromRngLoop ==
    /\ pc = "loop"
    /\ fr_stream' = or(source[pos], Small(1, 4))
    /\ pos' = NextPos
    /\ pc' = IF and(fr_stream', HighBits) # Small(0, 4)
             THEN "accepted" ELSE "loop"
    /\ UNCHANGED << engineVars, source, twinVars >>

\* Ok(Self { x: other.next_u64(), w: 0, s: stream })
FromRngReturn ==
    /\ pc = "accepted"
    /\ kind' = "msws"
    /\ rng' = [x |-> source[pos], w |-> Small(0, 4), s |-> fr_stream]
    /\ last' = [NoCall EXCEPT !.op = "from_rng", !.result = "Ok"]
    /\ pos' = NextPos
    /\ pc' = "done"
    /\ UNCHANGED << given_seed, ncalls, nfills, source, fr_stream, twinVars >>

FromRngNext ==
    \/ FromRngLoop
    \/ FromRngReturn

\* A call that has started runs on: each step of from_rng is taken.
SpecFromRng ==
    FromRngInit /\ [][FromRngNext]_vars /\ WF_vars(FromRngNext)

\* The high 32 bits of a word are not all zero.
HighNonZero(word) == word[3] # 0 \/ word[4] # 0

\* The place in the source of the first word with non-zero high bits.
FirstGood == CHOOSE i \in 1..Len(source) :
                /\ HighNonZero(source[i])
                /\ \A j \in 1..(i - 1) : ~HighNonZero(source[j])

\* What from_rng returns and what it has drawn when it returns.
FromRngResult ==
    pc = "done" =>
        /\ \E i \in 1..Len(source) : HighNonZero(source[i])
        /\ rng.s = [source[FirstGood] EXCEPT ![1] = ForcedOdd(@)]
        /\ rng.x = source[(FirstGood % Len(source)) + 1]
        /\ rng.w = << 0, 0, 0, 0 >>
        /\ pos = ((FirstGood + 1) % Len(source)) + 1
        /\ rng.s[1] % 2 = 1
        /\ HighNonZero(rng.s)
        /\ last.result = "Ok"

\* A turn of the loop that stays in the loop has rejected the word it drew,
\* whose high bits were zero, and has drawn that one word only.
FromRngRejects ==
    (pc = "loop" /\ pc' = "loop" /\ pos' # pos) =>
        /\ ~HighNonZero(source[pos])
        /\ pos' = (pos % Len(source)) + 1

\* C9: from_rng draws words one at a time, forces the low bit of each,
\* rejects those whose high 32 bits are zero and takes the first other one as
\* s, then draws exactly one more word as x and returns with w = 0; it
\* returns if the source yields a word with non-zero high bits and never
\* returns if it yields none; the engine returned has s odd with non-zero
\* high bits.
C9_FromRng ==
    /\ [] FromRngResult
    /\ [][FromRngRejects]_vars
    /\ (\E i \in 1..Len(source) : HighNonZero(source[i])) => <>(pc = "done")
    /\ (\A i \in 1..Len(source) : ~HighNonZero(source[i])) => [](pc = "loop")

\* from_rng has returned after rejecting two words.
C9_Witness ==
    /\ pc = "done"
    /\ ~HighNonZero(source[1])
    /\ ~HighNonZero(source[2])
    /\ HighNonZero(source[3])
    /\ rng.s = [source[3] EXCEPT ![1] = ForcedOdd(@)]
    /\ rng.x = source[1]

(***************************************************************************)
(* Two instances of one engine type, constructed separately from the same  *)
(* seed bytes and driven by the same calls, each at its own pace.          *)
(***************************************************************************)
MaxTwinCalls == 2

\* Seeds of 16 bytes take two words, those of XSM32 and XSM64 three, the
\* first and the last of them alike.
TwinSeeds(k) ==
    CASE k = "xsm32" ->
            { a \o b \o a : a \in SeedWords32, b \in SeedWords32 }
      [] k = "xsm64" ->
            { a \o b \o a : a \in SeedWords64Few \ {One64},
                            b \in SeedWords64Few \ {One64} }
      [] OTHER ->
            { a \o b : a \in SeedWords64Few \ {One64},
                       b \in SeedWords64Few \ {One64} }

\* The calls an instance may be given.
TwinCalls ==
    { [op |-> "next_u32", n |-> 0], [op |-> "next_u64", n |-> 0] }
        \cup { [op |-> "fill_bytes", n |-> n] : n \in {3, 16} }

TwinInit ==
    /\ kind \in Kinds
    /\ given_seed \in TwinSeeds(kind)
    /\ rng = NoEngine
    /\ last = NoCall
    /\ ncalls = 0
    /\ nfills = 0
    /\ FromRngIdle
    /\ TwinIdle

\* Instance i may be given call c: the next call of the script, or, when it
\* has made all of them, any call, which the script then records.
MayCall(i, c) ==
    /\ twin[i].built
    /\ twin[i].rng # Panicked
    /\ Len(twin[i].log) < MaxTwinCalls
    /\ c \in TwinCalls
    /\ Len(twin[i].log) < Len(script) => c = script[Len(twin[i].log) + 1]

Recorded(i, c) ==
    IF Len(twin[i].log) < Len(script) THEN script ELSE Append(script, c)

\* Instance i after a call that left engine r, returned word out and wrote
\* bytes buf.
After(i, r, out, buf) ==
    [twin EXCEPT ![i].rng = r,
                 ![i].log = Append(@, [out |-> out, buf |-> buf, rng |-> r])]

TwinConstruct(i) ==
    /\ ~twin[i].built
    /\ LET r == from_seed(kind, given_seed)
       IN  twin' = [twin EXCEPT ![i] = [built |-> TRUE, init |-> r,
                                        rng |-> r, log |-> << >>]]
    /\ UNCHANGED << engineVars, fromRngVars, script >>

TwinNextU32(i) ==
    LET c == [op |-> "next_u32", n |-> 0]
    IN  /\ MayCall(i, c)
        /\ LET r == next_u32(kind, twin[i].rng)
           IN  twin' = After(i, r.rng, r.out, << >>)
        /\ script' = Recorded(i, c)
        /\ UNCHANGED << engineVars, fromRngVars >>

TwinNextU64(i) ==
    LET c == [op |-> "next_u64", n |-> 0]
    IN  /\ MayCall(i, c)
        /\ LET r == next_u64(kind, twin[i].rng)
           IN  twin' = After(i, r.rng, r.out, << >>)
        /\ script' = Recorded(i, c)
        /\ UNCHANGED << engineVars, fromRngVars >>

TwinFillBytes(i) ==
    \E n \in {3, 16} :
        LET c == [op |-> "fill_bytes", n |-> n]
        IN  /\ MayCall(i, c)
            /\ LET r == fill_bytes(kind, twin[i].rng, n)
               IN  twin' = After(i, r.rng, << >>, r.buf)
            /\ script' = Recorded(i, c)
            /\ UNCHANGED << engineVars, fromRngVars >>

TwinNext ==
    \E i \in Instances :
        \/ TwinConstruct(i)
        \/ TwinNextU32(i)
        \/ TwinNextU64(i)
        \/ TwinFillBytes(i)

SpecTwin == TwinInit /\ [][TwinNext]_vars

\* Two instances constructed separately from the same seed bytes and given
\* the same calls hold the same engine after construction, and at every call
\* both have made they returned the same word, wrote the same bytes and were
\* left holding the same engine, whichever of them ran first.
\*
\* The determinism contract has this shape, but the formula is no check of
\* it: every operation above is a function of the instance it is called on
\* and of its arguments, the source declares no static or global item an
\* engine could read, and so both instances are the same functions applied
\* to the same values.  The equality would hold whatever the engines
\* computed.  What the contract says about the code is that next_u32,
\* next_u64 and fill_bytes read nothing but self and dest, which is a fact
\* about the text of the source and not about its behaviours.
TwinsAgree ==
    /\ (twin["A"].built /\ twin["B"].built) => twin["A"].init = twin["B"].init
    /\ \A n \in 1..Len(script) :
        (n <= Len(twin["A"].log) /\ n <= Len(twin["B"].log)) =>
            twin["A"].log[n] = twin["B"].log[n]
    /\ (twin["A"].built /\ twin["B"].built
            /\ Len(twin["A"].log) = Len(twin["B"].log)) =>
        twin["A"].rng = twin["B"].rng

\* B made both of its calls before A made any; A has now made them too, the
\* second a fill_bytes, and the engines have moved on from construction.
TwinsAgreeReached ==
    /\ Len(twin["A"].log) = 2
    /\ Len(twin["B"].log) = 2
    /\ script[2].op = "fill_bytes"
    /\ twin["A"].log[2].buf = twin["B"].log[2].buf
    /\ twin["A"].rng # twin["A"].init
    /\ kind = "xsm32"

====
